---- MODULE Spec2Model ----
(***************************************************************************)
(* The VGA test pattern generator of amaranth_boards/test/vga.py: the      *)
(* construction of VGA (clock ratio, scaled horizontal timing), and the    *)
(* synchronous logic of LineGen, VScanGen and RGBOn in one clock domain.   *)
(*                                                                         *)
(* Floating point.  clk_freq is an integer number of Hz.  The ratio        *)
(* round(clk_freq/25.2e6, 4) is a multiple of 1/10000 and is kept as the   *)
(* integer freq_ratio = 10000 * ratio.  For an integer clk_freq the        *)
(* quotient is farther than 1e-8 from a decimal tie unless it is exactly   *)
(* one, so the rounding is the exact nearest multiple; at an exact tie     *)
(* (clk_freq = 2520*m + 1260) the result depends on the binary             *)
(* representation of the quotient and either neighbour is allowed.         *)
(* round(ratio*C) for C in 96, 48, 80, 800 is never within 0.004 of a tie, *)
(* so the float product rounds like the exact rational.                    *)
(***************************************************************************)
EXTENDS Integers, Naturals, Sequences, FiniteSets, TLC

\* ---------------------------------------------------------------- constants
ACTPIXEL == 640
HPORCH_FRONT == 16
HPORCH_SYNC == 96
HPORCH_BACK == 48
HTOTAL == ACTPIXEL + HPORCH_FRONT + HPORCH_SYNC + HPORCH_BACK

ACTLINE == 480
VPORCH_FRONT == 10
VPORCH_SYNC == 2
VPORCH_BACK == 33
VTOTAL == ACTLINE + VPORCH_FRONT + VPORCH_SYNC + VPORCH_BACK

\* The reference pixel clock 25.2e6 Hz, and the number of Hz in one step of
\* the ratio rounded to 4 decimals (25.2e6 / 10000).
REF_FREQ == 25200000
RATIO_SCALE == 10000
RATIO_QUANTUM == REF_FREQ \div RATIO_SCALE

\* Width of the r, g and b outputs the platform hands out (six pins each).
R_WIDTH == 6
G_WIDTH == 6
B_WIDTH == 6

\* ------------------------------------------------------------------- bounds
\* Clock cycles driven from reset: one frame and the first 64 lines of the
\* next one for the longest line modelled, so that the frame wrap and the
\* first halfbrite flip after it are included.
MaxCycles == 470000
\* The channel widths RGBOn is built with on its own: 1..MaxWidth.
MaxWidth == 8
\* The clock frequencies SpecCfg constructs VGA with: FreqLo + i*FreqStep,
\* from ratio 0.99 to ratio 2.02, and the first TieCount + 1 frequencies above
\* the reference whose ratio is a decimal tie.
FreqLo == 24948000
FreqStep == 840
FreqCount == 31000
TieCount == 300

\* Clock frequencies of the running generator: rejected (ratio 0.5), the
\* reference (ratio 1.0, default timing) and ratio 1.01 (scaled timing).
ClkFreqs == {12600000, 25200000, 25452000}

\* Clock frequencies of the construction-only specification.
TieFreqs == {REF_FREQ + RATIO_QUANTUM \div 2 + i * RATIO_QUANTUM : i \in 0..TieCount}

CfgFreqs == {12600000} \cup {FreqLo + i * FreqStep : i \in 0..FreqCount} \cup TieFreqs

VARIABLES
    clk_freq,     \* the clk_freq argument of VGA.__init__, in Hz
    pc,           \* "new", "error", "constructed" or "running"
    freq_ratio,   \* VGA._freq_ratio * 10000
    lg,           \* the LineGen instance's timing attributes
    pixel,        \* LineGen: pixel
    block_pixel,  \* LineGen: block_pixel
    block,        \* LineGen: block
    line,         \* VScanGen: line
    n,            \* clock cycles since reset
    frames,       \* cycles since reset in which newframe was true
    rgbon         \* an RGBOn component on its own: shapes, input, outputs

vars == <<clk_freq, pc, freq_ratio, lg, pixel, block_pixel, block, line, n, frames,
          rgbon>>

\* ------------------------------------------------------------------ helpers
Pow2(w) == 2 ^ w

\* Number of bits of an unsigned value: the width of Signal(range(0, v + 1)).
RECURSIVE BitsFor(_)
BitsFor(v) == IF v = 0 THEN 0 ELSE 1 + BitsFor(v \div 2)

\* Mutant: truncation instead of rounding.
Round_Trunc(a, b) == a \div b

\* Python's round(a/b) for integers a >= 0, b > 0: nearest, ties to even.
Round(a, b) ==
    LET q == a \div b
        r == a % b
    IN  IF 2 * r < b THEN q
        ELSE IF 2 * r > b THEN q + 1
        ELSE IF q % 2 = 0 THEN q ELSE q + 1

\* round(clk/25.2e6, 4) * 10000: the values the rounding can produce.
RoundRatio(clk) ==
    LET q == clk \div RATIO_QUANTUM
        r == clk % RATIO_QUANTUM
    IN  IF 2 * r < RATIO_QUANTUM THEN {q}
        ELSE IF 2 * r > RATIO_QUANTUM THEN {q + 1}
        ELSE {q, q + 1}

\* ------------------------------------------------------------------ LineGen
\* LineGen.__init__
LineGen_init(block_cycles, hporch_front, hporch_sync, hporch_back) ==
    [ block_cycles |-> block_cycles,
      actpixel     |-> 8 * block_cycles,
      hporch_front |-> hporch_front,
      hporch_sync  |-> hporch_sync,
      hporch_back  |-> hporch_back,
      htotal       |-> 8 * block_cycles + hporch_front + hporch_sync + hporch_back ]

NoLineGen == LineGen_init(0, 0, 0, 0)

\* Width of the pixel and block_pixel registers.
LineGen_pixel_width == BitsFor(lg.htotal - 1)
LineGen_block_pixel_width == BitsFor(lg.block_cycles - 1)
LineGen_block_width == BitsFor(8)

\* Mutant: the pulse is taken from the counter after its update.
newline_Late == pixel = 0

\* newline.eq(pixel == (self._htotal - 1))
newline == pixel = lg.htotal - 1

\* Mutant: the window includes its upper end.
hsync_Inclusive ==
    /\ pixel >= lg.actpixel + lg.hporch_front
    /\ pixel <= lg.actpixel + lg.hporch_front + lg.hporch_sync

\* hsync after hporch_front
hsync ==
    /\ pixel >= lg.actpixel + lg.hporch_front
    /\ pixel < lg.actpixel + lg.hporch_front + lg.hporch_sync

\* Mutant: the counter wraps one cycle late.
LineGen_pixel_next_Late ==
    IF pixel = lg.htotal THEN 0 ELSE (pixel + 1) % Pow2(LineGen_pixel_width)

\* pixel.eq(Mux(pixel == (self._htotal - 1), 0, pixel + 1))
LineGen_pixel_next ==
    IF pixel = lg.htotal - 1 THEN 0 ELSE (pixel + 1) % Pow2(LineGen_pixel_width)

\* Mutant: block_pixel is not cleared when the line wraps.
LineGen_block_pixel_next_Free ==
    IF block_pixel = lg.block_cycles - 1 THEN 0
    ELSE (block_pixel + 1) % Pow2(LineGen_block_pixel_width)

\* The If / Elif / Else that drives block_pixel and block.
LineGen_block_pixel_next ==
    IF pixel = lg.htotal - 1 THEN 0
    ELSE IF block_pixel = lg.block_cycles - 1 THEN 0
    ELSE (block_pixel + 1) % Pow2(LineGen_block_pixel_width)

\* Mutant: the block counter does not stop at 8.
LineGen_block_next_Unguarded ==
    IF pixel = lg.htotal - 1 THEN 0
    ELSE IF block_pixel = lg.block_cycles - 1
         THEN (block + 1) % Pow2(LineGen_block_width)
    ELSE block

\* Mutant: the block counter starts again at 0 after block 7.
LineGen_block_next_Repeat ==
    IF pixel = lg.htotal - 1 THEN 0
    ELSE IF block_pixel = lg.block_cycles - 1
         THEN IF block < 7 THEN (block + 1) % Pow2(LineGen_block_width) ELSE 0
    ELSE block

LineGen_block_next ==
    IF pixel = lg.htotal - 1 THEN 0
    ELSE IF block_pixel = lg.block_cycles - 1
         THEN IF block < 8 THEN (block + 1) % Pow2(LineGen_block_width) ELSE block
    ELSE block

\* ----------------------------------------------------------------- VScanGen
\* Mutant: the line counter is not gated by newline.
VScanGen_line_next_Ungated(nl) ==
    IF line = VTOTAL - 1 THEN 0 ELSE (line + 1) % Pow2(BitsFor(VTOTAL - 1))

\* line.eq(Mux(line == (VTOTAL - 1), 0, line + 1)) under If(newline)
VScanGen_line_next(nl) ==
    IF nl
    THEN IF line = VTOTAL - 1 THEN 0 ELSE (line + 1) % Pow2(BitsFor(VTOTAL - 1))
    ELSE line

\* Mutant: the first line after the active lines is not blanked.
vporch_Late == line > ACTLINE

vporch == line >= ACTLINE

\* Mutant: the window starts one line late.
vsync_Late ==
    /\ line > ACTLINE + VPORCH_FRONT
    /\ line < ACTLINE + VPORCH_FRONT + VPORCH_SYNC

vsync ==
    /\ line >= ACTLINE + VPORCH_FRONT
    /\ line < ACTLINE + VPORCH_FRONT + VPORCH_SYNC

\* Mutant: bit 5 of the line counter.
halfbrite_Bit5 == (line \div 32) % 2 = 1

\* line[6]
halfbrite == (line \div 64) % 2 = 1

\* Mutant: a pulse at the end of every line.
newframe_EveryLine == newline

newframe == (line = VTOTAL - 1) /\ newline

\* -------------------------------------------------------------------- RGBOn
\* Mutant: halfbrite clears the least significant bit.
RGBOn_on_LowBit(w, hb) ==
    LET ones == Pow2(w) - 1
    IN  IF hb THEN ones - 1 ELSE ones

\* All ones in w bits, the top bit cleared under halfbrite.
RGBOn_on(w, hb) ==
    LET ones == Pow2(w) - 1
    IN  IF hb THEN ones - Pow2(w - 1) ELSE ones

\* RGBOn with its shapes, its halfbrite input and the outputs it drives.
RGBOn_elaborate(r_shape, g_shape, b_shape, hb) ==
    [ r_shape   |-> r_shape,
      g_shape   |-> g_shape,
      b_shape   |-> b_shape,
      halfbrite |-> hb,
      r_on      |-> RGBOn_on(r_shape, hb),
      g_on      |-> RGBOn_on(g_shape, hb),
      b_on      |-> RGBOn_on(b_shape, hb) ]

\* The halfbrite input of the RGBOn component is driven to hb.
RGBOn_drive ==
    /\ \E hb \in BOOLEAN :
          rgbon' = RGBOn_elaborate(rgbon.r_shape, rgbon.g_shape, rgbon.b_shape, hb)
    /\ UNCHANGED <<clk_freq, pc, freq_ratio, lg, pixel, block_pixel, block, line, n,
                   frames>>

r_on == RGBOn_on(R_WIDTH, halfbrite)
g_on == RGBOn_on(G_WIDTH, halfbrite)
b_on == RGBOn_on(B_WIDTH, halfbrite)

Colour(r, g, b) == [r |-> r, g |-> g, b |-> b]

\* Mutant: the green and blue blocks are exchanged.
LineGen_rgb_Swapped(vp, blk) ==
    IF vp THEN Colour(0, 0, 0)
    ELSE CASE blk = 0 -> Colour(r_on, 0, 0)
           [] blk = 1 -> Colour(0, 0, b_on)
           [] blk = 2 -> Colour(0, g_on, 0)
           [] blk = 3 -> Colour(0, 0, 0)
           [] blk = 4 -> Colour(r_on, g_on, 0)
           [] blk = 5 -> Colour(r_on, 0, b_on)
           [] blk = 6 -> Colour(0, g_on, b_on)
           [] blk = 7 -> Colour(r_on, g_on, b_on)
           [] OTHER   -> Colour(0, 0, 0)

\* Mutant: the vertical porch does not blank the last block.
LineGen_rgb_NoBlank(vp, blk) ==
    IF vp /\ blk # 7 THEN Colour(0, 0, 0)
    ELSE CASE blk = 0 -> Colour(r_on, 0, 0)
           [] blk = 1 -> Colour(0, g_on, 0)
           [] blk = 2 -> Colour(0, 0, b_on)
           [] blk = 3 -> Colour(0, 0, 0)
           [] blk = 4 -> Colour(r_on, g_on, 0)
           [] blk = 5 -> Colour(r_on, 0, b_on)
           [] blk = 6 -> Colour(0, g_on, b_on)
           [] blk = 7 -> Colour(r_on, g_on, b_on)
           [] OTHER   -> Colour(0, 0, 0)

\* Mutant: blocks 5 and 6 are exchanged.
LineGen_rgb_Swapped56(vp, blk) ==
    IF vp THEN Colour(0, 0, 0)
    ELSE CASE blk = 0 -> Colour(r_on, 0, 0)
           [] blk = 1 -> Colour(0, g_on, 0)
           [] blk = 2 -> Colour(0, 0, b_on)
           [] blk = 3 -> Colour(0, 0, 0)
           [] blk = 4 -> Colour(r_on, g_on, 0)
           [] blk = 5 -> Colour(0, g_on, b_on)
           [] blk = 6 -> Colour(r_on, 0, b_on)
           [] blk = 7 -> Colour(r_on, g_on, b_on)
           [] OTHER   -> Colour(0, 0, 0)

\* LineGen's r, g and b: black in the vertical porch, else by block.
LineGen_rgb(vp, blk) ==
    IF vp THEN Colour(0, 0, 0)
    ELSE CASE blk = 0 -> Colour(r_on, 0, 0)
           [] blk = 1 -> Colour(0, g_on, 0)
           [] blk = 2 -> Colour(0, 0, b_on)
           [] blk = 3 -> Colour(0, 0, 0)
           [] blk = 4 -> Colour(r_on, g_on, 0)
           [] blk = 5 -> Colour(r_on, 0, b_on)
           [] blk = 6 -> Colour(0, g_on, b_on)
           [] blk = 7 -> Colour(r_on, g_on, b_on)
           [] OTHER   -> Colour(0, 0, 0)

\* The composed generator's colour output: vporch wired from VScanGen.
rgb == LineGen_rgb(vporch, block)

\* ---------------------------------------------------------------------- VGA
\* Mutant: the sync output is not inverted.
hs_NotInverted == hsync

\* vga.hs.o.eq(~linegen.hsync)
hs == ~hsync

\* vga.vs.o.eq(~vgen.vsync)
vs == ~vsync

\* Mutant: the default line generator gets the active width as block width.
VGA_linegen_WideBlock(ratio) ==
    IF ratio < 10100
    THEN LineGen_init(ACTPIXEL, HPORCH_FRONT, HPORCH_SYNC, HPORCH_BACK)
    ELSE LET hporch_sync  == Round(ratio * HPORCH_SYNC, RATIO_SCALE)
             hporch_back  == Round(ratio * HPORCH_BACK, RATIO_SCALE)
             block_cycles == Round(ratio * ACTPIXEL, 8 * RATIO_SCALE)
             htotal       == Round(ratio * HTOTAL, RATIO_SCALE)
             hporch_front == htotal - (8 * block_cycles + hporch_sync + hporch_back)
         IN  LineGen_init(block_cycles, hporch_front, hporch_sync, hporch_back)

\* Mutant: the front porch is taken from the unscaled total.
VGA_linegen_UnscaledTotal(ratio) ==
    IF ratio < 10100
    THEN LineGen_init(ACTPIXEL \div 8, HPORCH_FRONT, HPORCH_SYNC, HPORCH_BACK)
    ELSE LET hporch_sync  == Round(ratio * HPORCH_SYNC, RATIO_SCALE)
             hporch_back  == Round(ratio * HPORCH_BACK, RATIO_SCALE)
             block_cycles == Round(ratio * ACTPIXEL, 8 * RATIO_SCALE)
             hporch_front == HTOTAL - (8 * block_cycles + hporch_sync + hporch_back)
         IN  LineGen_init(block_cycles, hporch_front, hporch_sync, hporch_back)

\* VGA.elaborate: the LineGen it builds for a ratio.
VGA_linegen(ratio) ==
    IF ratio < 10100
    THEN LineGen_init(ACTPIXEL \div 8, HPORCH_FRONT, HPORCH_SYNC, HPORCH_BACK)
    ELSE LET hporch_sync  == Round(ratio * HPORCH_SYNC, RATIO_SCALE)
             hporch_back  == Round(ratio * HPORCH_BACK, RATIO_SCALE)
             block_cycles == Round(ratio * ACTPIXEL, 8 * RATIO_SCALE)
             htotal       == Round(ratio * HTOTAL, RATIO_SCALE)
             hporch_front == htotal - (8 * block_cycles + hporch_sync + hporch_back)
         IN  LineGen_init(block_cycles, hporch_front, hporch_sync, hporch_back)

\* Mutant: the reference frequency itself is rejected.
VGA_rejects_Strict(ratio) == ratio <= RATIO_SCALE

\* VGA.__init__: ratio < 1.0 raises ValueError.
VGA_rejects(ratio) == ratio < RATIO_SCALE

VGA_init ==
    /\ pc = "new"
    /\ \E ratio \in RoundRatio(clk_freq) :
          /\ freq_ratio' = ratio
          /\ pc' = IF VGA_rejects(ratio) THEN "error" ELSE "constructed"
    /\ UNCHANGED <<clk_freq, lg, pixel, block_pixel, block, line, n, frames, rgbon>>

VGA_elaborate ==
    /\ pc = "constructed"
    /\ lg' = VGA_linegen(freq_ratio)
    /\ pc' = "running"
    /\ UNCHANGED <<clk_freq, freq_ratio, pixel, block_pixel, block, line, n, frames,
                   rgbon>>

\* One edge of the sync clock: every register of LineGen and VScanGen takes
\* its next value from the values before the edge.
Tick ==
    /\ pc = "running"
    /\ n < MaxCycles
    /\ pixel' = LineGen_pixel_next
    /\ block_pixel' = LineGen_block_pixel_next
    /\ block' = LineGen_block_next
    /\ line' = VScanGen_line_next(newline)
    /\ n' = n + 1
    /\ frames' = frames + (IF newframe THEN 1 ELSE 0)
    /\ UNCHANGED <<clk_freq, pc, freq_ratio, lg, rgbon>>

\* ------------------------------------------------------------ specification
\* The RGBOn components built with shapes 1..MaxWidth, halfbrite low.
RGBOnShapes ==
    { RGBOn_elaborate(rs, gs, bs, FALSE) :
        rs \in 1..MaxWidth, gs \in 1..MaxWidth, bs \in 1..MaxWidth }

InitWith(freqs) ==
    /\ rgbon = RGBOn_elaborate(R_WIDTH, G_WIDTH, B_WIDTH, FALSE)
    /\ clk_freq \in freqs
    /\ pc = "new"
    /\ freq_ratio = 0
    /\ lg = NoLineGen
    /\ pixel = 0
    /\ block_pixel = 0
    /\ block = 0
    /\ line = 0
    /\ n = 0
    /\ frames = 0

Init == InitWith(ClkFreqs)

Next == VGA_init \/ VGA_elaborate \/ Tick

Spec == Init /\ [][Next]_vars

InitCfg == InitWith(CfgFreqs)

NextCfg == VGA_init \/ VGA_elaborate

SpecCfg == InitCfg /\ [][NextCfg]_vars

\* RGBOn on its own, for every shape, with its halfbrite input driven.
InitOn ==
    /\ rgbon \in RGBOnShapes
    /\ clk_freq = REF_FREQ
    /\ pc = "new"
    /\ freq_ratio = 0
    /\ lg = NoLineGen
    /\ pixel = 0
    /\ block_pixel = 0
    /\ block = 0
    /\ line = 0
    /\ n = 0
    /\ frames = 0

NextOn == RGBOn_drive

SpecOn == InitOn /\ [][NextOn]_vars

\* ------------------------------------------------------------------- claims
Running == pc = "running"

\* C1: on every clock cycle the pixel counter goes from p to (p + 1) mod
\* htotal, with htotal = 8*block_cycles + hporch_front + hporch_sync +
\* hporch_back, and newline is true iff the pre-increment pixel is htotal - 1
\* (the cycles on whose edge the counter wraps to 0).
C1_htotal == 8 * lg.block_cycles + lg.hporch_front + lg.hporch_sync + lg.hporch_back

C1_PixelStep ==
    [][Tick => /\ pixel' = (pixel + 1) % C1_htotal
               /\ newline <=> (pixel = C1_htotal - 1)
               /\ newline <=> (pixel' = 0)]_vars

C1_Witness == Running /\ pixel = 0 /\ n = C1_htotal

\* C2: on a clock cycle where newline is false the line counter keeps its
\* value, on a clock cycle where newline is true it goes from l to
\* (l + 1) mod VTOTAL, and nothing else changes it.
C2_LineStep ==
    [][IF Tick /\ newline THEN line' = (line + 1) % VTOTAL ELSE line' = line]_vars

C2_Witness == Running /\ line = 0 /\ frames = 1

\* C3: after n clock cycles from reset pixel = n mod htotal and
\* line = (n div htotal) mod VTOTAL: the line counter advances on the edge on
\* which the pixel counter wraps.
C3_Lockstep ==
    Running => /\ pixel = n % lg.htotal
               /\ line = (n \div lg.htotal) % VTOTAL

C3_Witness == Running /\ n = lg.htotal * VTOTAL + lg.htotal /\ line = 1

\* C4: in the first htotal * VTOTAL clock cycles from reset newframe is true
\* in exactly one cycle, the last of them.
C4_OneFrame ==
    Running => /\ n = lg.htotal * VTOTAL => frames = 1
               /\ n < lg.htotal * VTOTAL => frames = 0

C4_Witness == Running /\ n = lg.htotal * VTOTAL /\ frames = 1

\* C5: during the first line from reset, at cycle n < 8*block_cycles the
\* colour is the full-brightness colour of block n div block_cycles, in the
\* order R, G, B, black, R+G, R+B, G+B, R+G+B; the last block ends after
\* exactly block_cycles cycles.
C5_Pattern ==
    LET R == Pow2(R_WIDTH) - 1
        G == Pow2(G_WIDTH) - 1
        B == Pow2(B_WIDTH) - 1
    IN  << Colour(R, 0, 0), Colour(0, G, 0), Colour(0, 0, B), Colour(0, 0, 0),
           Colour(R, G, 0), Colour(R, 0, B), Colour(0, G, B), Colour(R, G, B) >>

C5_FirstLine ==
    Running =>
        /\ n < 8 * lg.block_cycles => rgb = C5_Pattern[(n \div lg.block_cycles) + 1]
        /\ n = 8 * lg.block_cycles => rgb = Colour(0, 0, 0)

C5_Witness == Running /\ n = 8 * lg.block_cycles - 1 /\ rgb = C5_Pattern[8]

\* C6: hsync is true exactly in the cycles whose position in the line is in
\* [active + hporch_front, active + hporch_front + hporch_sync), a window of
\* hporch_sync cycles that lies inside the line.
C6_HsyncWindow ==
    Running =>
        LET first == 8 * lg.block_cycles + lg.hporch_front
            pos   == n % lg.htotal
        IN  /\ hsync <=> (first <= pos /\ pos < first + lg.hporch_sync)
            /\ hsync <=> (first <= pixel /\ pixel < first + lg.hporch_sync)
            /\ lg.hporch_sync > 0
            /\ first + lg.hporch_sync <= lg.htotal

C6_Witness ==
    Running /\ hsync /\ n = lg.htotal + 8 * lg.block_cycles + lg.hporch_front

\* C7: vsync is true exactly in the cycles whose line is in
\* [ACTLINE + VPORCH_FRONT, ACTLINE + VPORCH_FRONT + VPORCH_SYNC) = [490, 492).
C7_VsyncWindow ==
    Running =>
        LET l == (n \div lg.htotal) % VTOTAL
        IN  /\ vsync <=> (490 <= l /\ l < 492)
            /\ vsync <=> (490 <= line /\ line < 492)
            /\ ACTLINE + VPORCH_FRONT = 490
            /\ ACTLINE + VPORCH_FRONT + VPORCH_SYNC = 492

C7_Witness == Running /\ vsync /\ n = 490 * lg.htotal

C8_Threshold == REF_FREQ - RATIO_QUANTUM \div 2

C9_Nearest(x, a, b) == 2 * (IF b * x >= a THEN b * x - a ELSE a - b * x) <= b

C9_Scaled ==
    /\ C9_Nearest(lg.hporch_sync, freq_ratio * 96, RATIO_SCALE)
    /\ C9_Nearest(lg.hporch_back, freq_ratio * 48, RATIO_SCALE)
    /\ \E bc \in 0..lg.actpixel :
          lg.actpixel = 8 * bc /\ C9_Nearest(bc, freq_ratio * 80, RATIO_SCALE)
    /\ C9_Nearest(lg.htotal, freq_ratio * 800, RATIO_SCALE)
    /\ lg.hporch_front = lg.htotal - (lg.actpixel + lg.hporch_sync + lg.hporch_back)

\* C9 as stated: for every accepted clock frequency the horizontal timing
\* of the line generator is the standard timing scaled by the ratio.
C9_Original == Running => C9_Scaled

\* C9: for every accepted clock frequency with ratio >= 1.01 the horizontal
\* timing is scaled by the ratio (sync = round(ratio*96), back porch =
\* round(ratio*48), active = 8*round(ratio*640/8), total = round(ratio*800),
\* front porch the rest); with 1.0 <= ratio < 1.01 it is the unscaled
\* standard timing 640, 16, 96, 48.
C9_Timing ==
    Running =>
        IF freq_ratio >= 10100
        THEN C9_Scaled
        ELSE /\ lg.actpixel = 640
             /\ lg.hporch_front = 16
             /\ lg.hporch_sync = 96
             /\ lg.hporch_back = 48
             /\ lg.htotal = 800

C9_Witness == Running /\ freq_ratio = 15003 /\ lg.htotal = 1200 /\ lg.hporch_sync = 144

\* C10: for every accepted ratio the front porch is a non-negative integer,
\* the four horizontal parts add up to the total the pixel counter counts to,
\* and 480 + 10 + 2 + 33 = VTOTAL.
C10_SumInvariant ==
    Running =>
        /\ lg.hporch_front \in Nat
        /\ 8 * lg.block_cycles + lg.hporch_front + lg.hporch_sync + lg.hporch_back
             = lg.htotal
        /\ lg.actpixel = 8 * lg.block_cycles
        /\ 480 + 10 + 2 + 33 = VTOTAL

C10_Witness == Running /\ freq_ratio = 20000 /\ lg.hporch_front = 32 /\ lg.htotal = 1600

\* C11: constructing VGA with exactly 25.2e6 Hz succeeds, and the generator
\* then runs with the literal standard timing: horizontal 640, 16, 96, 48
\* (total 800, blocks of 80), vertical 480, 10, 2, 33 (total 525).
C11_Defaults ==
    /\ (pc # "new" /\ clk_freq = 25200000) => pc # "error"
    /\ (Running /\ clk_freq = 25200000) =>
          /\ lg.block_cycles = 80
          /\ lg.actpixel = 640
          /\ lg.hporch_front = 16
          /\ lg.hporch_sync = 96
          /\ lg.hporch_back = 48
          /\ lg.htotal = 800
          /\ pixel = n % 800
          /\ line = (n \div 800) % 525
          /\ hsync <=> (640 + 16 <= pixel /\ pixel < 640 + 16 + 96)
          /\ vporch <=> (480 <= line)
          /\ vsync <=> (480 + 10 <= line /\ line < 480 + 10 + 2)
          /\ newframe <=> (line = 480 + 10 + 2 + 33 - 1 /\ pixel = 640 + 16 + 96 + 48 - 1)

C11_Witness == Running /\ clk_freq = 25200000 /\ n = 800 + 656 /\ hsync /\ line = 1

\* C12: in every cycle where the line counter is >= 480, vporch is true and
\* the colour output is (0,0,0); with vporch true the colour is (0,0,0) for
\* every block index, under either value of halfbrite (evaluated for every
\* value of the block register at the start of each line).
C12_Blanking ==
    Running =>
        /\ (n \div lg.htotal) % VTOTAL >= 480 => (vporch /\ rgb = Colour(0, 0, 0))
        /\ line >= 480 => (vporch /\ rgb = Colour(0, 0, 0))
        /\ pixel = 0 => \A blk \in 0..15 : LineGen_rgb(TRUE, blk) = Colour(0, 0, 0)

C12_Witness == Running /\ line = 480 /\ block = 7 /\ halfbrite /\ rgb = Colour(0, 0, 0)

\* C13: with vporch false the colour is a function of the block index and
\* halfbrite only: R is on in blocks 0, 4, 5, 7, G in blocks 1, 4, 6, 7,
\* B in blocks 2, 5, 6, 7, block 3 and every block index >= 8 are black
\* (evaluated for every value of the block register at the start of each
\* line, and for the block shown in every cycle).
C13_On(w) == IF halfbrite THEN Pow2(w - 1) - 1 ELSE Pow2(w) - 1

C13_Expected(blk) ==
    Colour(IF blk \in {0, 4, 5, 7} THEN C13_On(R_WIDTH) ELSE 0,
           IF blk \in {1, 4, 6, 7} THEN C13_On(G_WIDTH) ELSE 0,
           IF blk \in {2, 5, 6, 7} THEN C13_On(B_WIDTH) ELSE 0)

C13_Pattern ==
    Running =>
        /\ pixel = 0 => \A blk \in 0..15 : LineGen_rgb(FALSE, blk) = C13_Expected(blk)
        /\ ~vporch => rgb = C13_Expected(block)

C13_Witness ==
    Running /\ ~vporch /\ halfbrite /\ block = 6 /\ rgb = Colour(0, 31, 31)

\* C14: for every channel width w the on-value is 2^w - 1 with halfbrite
\* false and 2^(w-1) - 1 with halfbrite true; 0xFF and 0x7F for w = 8.
C14_Value(w, hb) == IF hb THEN Pow2(w - 1) - 1 ELSE Pow2(w) - 1

C14_OnValue ==
    /\ rgbon.r_on = C14_Value(rgbon.r_shape, rgbon.halfbrite)
    /\ rgbon.g_on = C14_Value(rgbon.g_shape, rgbon.halfbrite)
    /\ rgbon.b_on = C14_Value(rgbon.b_shape, rgbon.halfbrite)
    /\ rgbon.r_shape = 8 => rgbon.r_on = (IF rgbon.halfbrite THEN 127 ELSE 255)
    /\ rgbon.g_shape = 8 => rgbon.g_on = (IF rgbon.halfbrite THEN 127 ELSE 255)
    /\ rgbon.b_shape = 8 => rgbon.b_on = (IF rgbon.halfbrite THEN 127 ELSE 255)

C14_Witness ==
    /\ rgbon.halfbrite
    /\ rgbon.r_shape = 8 /\ rgbon.r_on = 127
    /\ rgbon.g_shape = 5 /\ rgbon.g_on = 15

C16_NewFrame ==
    [][Tick => /\ newframe <=> (line = VTOTAL - 1 /\ newline)
               /\ newframe <=> (n % (lg.htotal * VTOTAL) = lg.htotal * VTOTAL - 1)
               /\ newframe => (line' = 0 /\ ~newframe')]_vars

C16_Witness == Running /\ frames = 1 /\ line = 0 /\ pixel = 0 /\ ~newframe

\* C17: the hs output is the inverse of hsync and the vs output the inverse
\* of vsync: hs is low exactly while the position in the line is inside the
\* horizontal sync window and vs is low exactly while the line is inside the
\* vertical sync window.
C17_SyncOutputs ==
    Running =>
        LET pos    == n % lg.htotal
            l      == (n \div lg.htotal) % VTOTAL
            hfirst == 8 * lg.block_cycles + lg.hporch_front
            vfirst == ACTLINE + VPORCH_FRONT
        IN  /\ hs <=> ~hsync
            /\ vs <=> ~vsync
            /\ ~hs <=> (hfirst <= pos /\ pos < hfirst + lg.hporch_sync)
            /\ ~vs <=> (vfirst <= l /\ l < vfirst + VPORCH_SYNC)

C17_Witness == Running /\ ~hs /\ ~vs

\* C18: in every reachable state the pixel counter is in [0, htotal), the
\* line counter in [0, VTOTAL) and the block index in [0, 8].
C18_Ranges ==
    Running =>
        /\ pixel \in 0..(lg.htotal - 1)
        /\ line \in 0..(VTOTAL - 1)
        /\ block \in 0..8
        /\ block_pixel \in 0..(lg.block_cycles - 1)

C18_Witness == Running /\ block = 8 /\ pixel = lg.htotal - 1 /\ line = 1

\* C19: in every reachable state block = min(pixel div block_cycles, 8) and
\* block_pixel = pixel mod block_cycles; both are 0 in the cycle after the
\* pixel counter wraps.
C19_BlockTracksPixel ==
    Running =>
        LET q == pixel \div lg.block_cycles
        IN  /\ block = (IF q < 8 THEN q ELSE 8)
            /\ block_pixel = pixel % lg.block_cycles
            /\ (n > 0 /\ pixel = 0) => (block = 0 /\ block_pixel = 0)

C19_Witness ==
    /\ Running /\ n = lg.htotal /\ pixel = 0 /\ block = 0 /\ block_pixel = 0
    /\ lg.htotal % lg.block_cycles # 0

\* C20: whenever hsync or vsync is asserted, or the pixel counter is at or
\* past the active width 8*block_cycles, the colour output is (0,0,0).
C20_SyncInBlanking ==
    (Running /\ (hsync \/ vsync \/ pixel >= 8 * lg.block_cycles))
        => rgb = Colour(0, 0, 0)

C20_Witness == Running /\ hsync /\ ~vsync /\ ~vporch /\ line = 1 /\ rgb = Colour(0, 0, 0)
====
